---- MODULE Spec2Model ----
(***************************************************************************)
(* Model of the Facebook post extractor (main.py): the text normaliser     *)
(* fix_encoding, the record extractor extract_posts_from_json, the loader  *)
(* load_and_merge_posts and the renderer generate_html.                    *)
(*                                                                         *)
(* Python strings are sequences of code points.  JSON values are tagged    *)
(* records: [int |-> n], [str |-> s], [list |-> seq], [dict |-> f] and     *)
(* [null |-> TRUE]; a dict is a function from its keys to JSON values.     *)
(***************************************************************************)
EXTENDS Integers, Sequences, FiniteSets, TLC

VARIABLES
    pc,               \* position of the running function
    data,             \* argument of extract_posts_from_json
    result,           \* its outcome: [exc |-> raised?, posts |-> returned list]
    json_files,       \* argument of load_and_merge_posts: the files' contents
    file_idx,         \* position of the loop over json_files
    all_posts,        \* load_and_merge_posts: accumulated posts
    seen_timestamps,  \* load_and_merge_posts: cross-file seen set
    posts,            \* argument of generate_html
    extract_dir,      \* media source root: path |-> content of the existing entries
    photos_output_dir,\* photos output directory: file name |-> content
    html_items,       \* generate_html: rendered posts
    post_idx,         \* position of the loop over posts
    runs              \* completed calls of generate_html

vars == <<pc, data, result, json_files, file_idx, all_posts, seen_timestamps,
          posts, extract_dir, photos_output_dir, html_items, post_idx, runs>>

extractVars == <<data, result>>
loadVars == <<json_files, file_idx, all_posts, seen_timestamps>>
renderVars == <<posts, extract_dir, photos_output_dir, html_items, post_idx, runs>>

----------------------------------------------------------------------------
(* Sequences *)

RECURSIVE Flatten(_)
Flatten(ss) == IF ss = <<>> THEN <<>> ELSE Head(ss) \o Flatten(Tail(ss))

SeqsUpTo(S, n) == UNION {[1..k -> S] : k \in 0..n}

SetMax(S) == CHOOSE m \in S : \A x \in S : x <= m

SetMin(S) == CHOOSE m \in S : \A x \in S : m <= x

----------------------------------------------------------------------------
(* Python values *)

None == [null |-> TRUE]
PyInt(n) == [int |-> n]
PyStr(s) == [str |-> s]
PyList(s) == [list |-> s]
PyDict(f) == [dict |-> f]

IsNone(v) == "null" \in DOMAIN v
IsInt(v) == "int" \in DOMAIN v
IsStr(v) == "str" \in DOMAIN v
IsList(v) == "list" \in DOMAIN v
IsDict(v) == "dict" \in DOMAIN v

\* bool(v)
Truthy(v) ==
    CASE IsNone(v) -> FALSE
      [] IsInt(v) -> v.int # 0
      [] IsStr(v) -> v.str # <<>>
      [] IsList(v) -> v.list # <<>>
      [] IsDict(v) -> DOMAIN v.dict # {}

\* d.get(key, default) of a dict d; any other value has no attribute get
Get(d, key, default) == IF key \in DOMAIN d.dict THEN d.dict[key] ELSE default

\* hash(v) raises TypeError for lists and dicts
Hashable(v) == ~IsList(v) /\ ~IsDict(v)

\* "for x in v": lists, strings and dicts can be iterated
Iterable(v) == IsList(v) \/ IsStr(v) \/ IsDict(v)

\* The values a loop over v visits: a string yields its characters, a dict
\* its keys (strings: only their number and type are kept here).
Elements(v) ==
    CASE IsList(v) -> v.list
      [] IsStr(v) -> [i \in 1..Len(v.str) |-> PyStr(<<v.str[i]>>)]
      [] IsDict(v) -> [i \in 1..Cardinality(DOMAIN v.dict) |-> PyStr(<<107>>)]

----------------------------------------------------------------------------
(* Strings *)

\* One decoding step of a strict UTF-8 decoder: the number of bytes the
\* character at the head of b takes, 0 when the bytes are invalid.
IsCont(x) == x >= 128 /\ x <= 191

Utf8Width(b) ==
    LET b1 == b[1]
        n == Len(b)
    IN  CASE b1 < 128 -> 1
          [] b1 >= 194 /\ b1 <= 223 ->
                IF n >= 2 /\ IsCont(b[2]) THEN 2 ELSE 0
          [] b1 >= 224 /\ b1 <= 239 ->
                IF /\ n >= 3
                   /\ IsCont(b[2])
                   /\ IsCont(b[3])
                   /\ (b1 = 224 => b[2] >= 160)
                   /\ (b1 = 237 => b[2] <= 159)
                THEN 3 ELSE 0
          [] b1 >= 240 /\ b1 <= 244 ->
                IF /\ n >= 4
                   /\ IsCont(b[2])
                   /\ IsCont(b[3])
                   /\ IsCont(b[4])
                   /\ (b1 = 240 => b[2] >= 144)
                   /\ (b1 = 244 => b[2] <= 143)
                THEN 4 ELSE 0
          [] OTHER -> 0

Utf8Char(b, w) ==
    CASE w = 1 -> b[1]
      [] w = 2 -> (b[1] - 192) * 64 + (b[2] - 128)
      [] w = 3 -> (b[1] - 224) * 4096 + (b[2] - 128) * 64 + (b[3] - 128)
      [] w = 4 -> (b[1] - 240) * 262144 + (b[2] - 128) * 4096
                    + (b[3] - 128) * 64 + (b[4] - 128)

\* bytes.decode('utf-8'): [ok |-> decoded without error, chars |-> the text]
RECURSIVE Utf8Decode(_)
Utf8Decode(b) ==
    IF b = <<>> THEN [ok |-> TRUE, chars |-> <<>>]
    ELSE LET w == Utf8Width(b) IN
         IF w = 0 THEN [ok |-> FALSE, chars |-> <<>>]
         ELSE LET rest == Utf8Decode(SubSeq(b, w + 1, Len(b))) IN
              [ok |-> rest.ok, chars |-> <<Utf8Char(b, w)>> \o rest.chars]

\* fix_encoding on a str: text.encode('latin-1').decode('utf-8'), the text
\* itself when either conversion fails.
FixStr(text) ==
    IF text = <<>> THEN text
    ELSE IF \E i \in 1..Len(text) : text[i] > 255 THEN text
    ELSE LET r == Utf8Decode(text) IN IF r.ok THEN r.chars ELSE text

\* fix_encoding(text) raises AttributeError: a truthy value that is no str
\* has no encode method.
fix_encoding_raises(text) == Truthy(text) /\ ~IsStr(text)

fix_encoding(text) == IF ~Truthy(text) THEN text ELSE PyStr(FixStr(text.str))

\* str.lower() per character: ASCII and Latin-1 capitals, and the Kelvin
\* sign, whose lower case is the ASCII k.
LowerChar(c) ==
    CASE c >= 65 /\ c <= 90 -> c + 32
      [] c >= 192 /\ c <= 222 /\ c # 215 -> c + 32
      [] c = 8490 -> 107
      [] OTHER -> c

Lower(s) == [i \in 1..Len(s) |-> LowerChar(s[i])]

\* sub in s
Contains(s, sub) ==
    \E i \in 1..(Len(s) - Len(sub) + 1) : SubSeq(s, i, i + Len(sub) - 1) = sub

sticker == <<115, 116, 105, 99, 107, 101, 114>>

\* The components of a POSIX path: the parts between slashes, without the
\* empty ones and the "." ones.
RECURSIVE PathParts(_, _)
PathParts(p, cur) ==
    LET done == IF cur = <<>> \/ cur = <<46>> THEN <<>> ELSE <<cur>> IN
    IF p = <<>> THEN done
    ELSE IF Head(p) = 47 THEN done \o PathParts(Tail(p), <<>>)
    ELSE PathParts(Tail(p), Append(cur, Head(p)))

\* Path(p).name
PathName(p) ==
    LET parts == PathParts(p, <<>>) IN
    IF parts = <<>> THEN <<>> ELSE parts[Len(parts)]

----------------------------------------------------------------------------
(* FacebookPost *)

\* The decimal digits of an integer.
RECURSIVE Digits(_)
Digits(n) ==
    IF n < 0 THEN <<45>> \o Digits(0 - n)
    ELSE IF n < 10 THEN <<48 + n>>
    ELSE Digits(n \div 10) \o <<48 + (n % 10)>>

\* datetime.fromtimestamp(timestamp).strftime(...): the local time of the
\* second.  The calendar is not modelled: the string is the digits of the
\* second, like the formatted time a non-empty string of digits and signs
\* that determines the second.
DateString(timestamp) == PyStr(Digits(timestamp.int))

\* __post_init__ raises TypeError when a truthy timestamp is not a number.
post_init_raises(timestamp) == Truthy(timestamp) /\ ~IsInt(timestamp)

FacebookPost(timestamp, post_text, title, photo_paths, photo_filenames, tags, external_url) ==
    [timestamp |-> timestamp,
     post_text |-> post_text,
     title |-> title,
     photo_paths |-> photo_paths,
     photo_filenames |-> photo_filenames,
     date_string |-> IF Truthy(timestamp) THEN DateString(timestamp)
                     ELSE PyStr(<<>>),
     tags |-> tags,
     external_url |-> external_url]

----------------------------------------------------------------------------
(* extract_posts_from_json *)

\* The loop over item.get("data", []): the text of the first entry with a
\* truthy "post", [exc |-> TRUE] when an entry visited before it has no get
\* or the post found is not a str.
RECURSIVE scan_post_text(_)
scan_post_text(entries) ==
    IF entries = <<>> THEN [exc |-> FALSE, post_text |-> PyStr(<<>>)]
    ELSE LET d == Head(entries) IN
         IF ~IsDict(d) THEN [exc |-> TRUE]
         ELSE LET post == Get(d, "post", None) IN
              IF Truthy(post)
              THEN IF fix_encoding_raises(post) THEN [exc |-> TRUE]
                   ELSE [exc |-> FALSE, post_text |-> fix_encoding(post)]
              ELSE scan_post_text(Tail(entries))

item_post_text(item) ==
    LET d == Get(item, "data", PyList(<<>>)) IN
    IF ~Iterable(d) THEN [exc |-> TRUE] ELSE scan_post_text(Elements(d))

title_raises(item) == fix_encoding_raises(Get(item, "title", PyStr(<<>>)))

item_title(item) == fix_encoding(Get(item, "title", PyStr(<<>>)))

tag_name(t) == Get(t, "name", PyStr(<<>>))

tags_raise(item) ==
    LET tags == Get(item, "tags", PyList(<<>>)) IN
    \/ ~Iterable(tags)
    \/ \E i \in 1..Len(Elements(tags)) :
          LET t == Elements(tags)[i] IN
          ~IsDict(t) \/ fix_encoding_raises(tag_name(t))

item_tags(item) ==
    LET tags == Elements(Get(item, "tags", PyList(<<>>))) IN
    [i \in 1..Len(tags) |-> fix_encoding(tag_name(tags[i]))]

\* The two nested loops over the attachments: TRUE when the attachments or
\* one attachment's data cannot be iterated or an attachment has no get.
attachments_raise(item) ==
    LET attachments == Get(item, "attachments", PyList(<<>>)) IN
    \/ ~Iterable(attachments)
    \/ \E i \in 1..Len(Elements(attachments)) :
          LET attachment == Elements(attachments)[i] IN
          ~IsDict(attachment) \/ ~Iterable(Get(attachment, "data", PyList(<<>>)))

\* The attachment data entries in the order the two loops visit them.
att_data_entries(item) ==
    LET attachments == Elements(Get(item, "attachments", PyList(<<>>))) IN
    Flatten([i \in 1..Len(attachments) |->
                Elements(Get(attachments[i], "data", PyList(<<>>)))])

media_uri(att_data) == Get(Get(att_data, "media", None), "uri", PyStr(<<>>))

\* The body of the inner loop raises: the entry or a truthy media or
\* external_context has no get, or a truthy uri has no lower.
att_data_raises(att_data) ==
    \/ ~IsDict(att_data)
    \/ /\ Truthy(Get(att_data, "media", None))
       /\ \/ ~IsDict(Get(att_data, "media", None))
          \/ Truthy(media_uri(att_data)) /\ ~IsStr(media_uri(att_data))
    \/ /\ Truthy(Get(att_data, "external_context", None))
       /\ ~IsDict(Get(att_data, "external_context", None))

\* The uri the entry appends to photo_paths, <<>> when it appends none.
accepted_uri(att_data) ==
    IF /\ Truthy(Get(att_data, "media", None))
       /\ Truthy(media_uri(att_data))
       /\ ~Contains(Lower(media_uri(att_data).str), sticker)
    THEN <<media_uri(att_data).str>>
    ELSE <<>>

scan_photo_paths(entries) ==
    Flatten([i \in 1..Len(entries) |-> accepted_uri(entries[i])])

RECURSIVE scan_external_url(_, _)
scan_external_url(entries, external_url) ==
    IF entries = <<>> THEN external_url
    ELSE LET external_context == Get(Head(entries), "external_context", None) IN
         scan_external_url(Tail(entries),
             IF Truthy(external_context)
             THEN Get(external_context, "url", PyStr(<<>>))
             ELSE external_url)

\* Lines 48-70 raise for the item.
item_raises(item) ==
    \/ item_post_text(item).exc
    \/ title_raises(item)
    \/ tags_raise(item)
    \/ attachments_raise(item)
    \/ \E i \in 1..Len(att_data_entries(item)) :
          att_data_raises(att_data_entries(item)[i])

\* Mutant of keep: the filter is left out and every record yields a Post.
keep_always(post_text, photo_paths) == TRUE

\* "if post_text or photo_paths"
keep(post_text, photo_paths) == Truthy(post_text) \/ photo_paths # <<>>

item_post(item, timestamp) ==
    LET photo_paths == scan_photo_paths(att_data_entries(item)) IN
    FacebookPost(timestamp,
                 item_post_text(item).post_text,
                 item_title(item),
                 photo_paths,
                 [i \in 1..Len(photo_paths) |-> PathName(photo_paths[i])],
                 item_tags(item),
                 scan_external_url(att_data_entries(item), PyStr(<<>>)))

\* The loop over data, from the item at the head of items on.
RECURSIVE extract_loop(_, _, _)
extract_loop(items, seen, acc) ==
    IF items = <<>> THEN [exc |-> FALSE, posts |-> acc]
    ELSE LET item == Head(items) IN
         IF ~IsDict(item) THEN [exc |-> TRUE, posts |-> <<>>]
         ELSE LET timestamp == Get(item, "timestamp", PyInt(0)) IN
              IF ~Hashable(timestamp) THEN [exc |-> TRUE, posts |-> <<>>]
              ELSE IF timestamp \in seen
              THEN extract_loop(Tail(items), seen, acc)
              ELSE IF item_raises(item) THEN [exc |-> TRUE, posts |-> <<>>]
              ELSE IF keep(item_post_text(item).post_text,
                           scan_photo_paths(att_data_entries(item)))
              THEN IF post_init_raises(timestamp)
                   THEN [exc |-> TRUE, posts |-> <<>>]
                   ELSE extract_loop(Tail(items), seen \cup {timestamp},
                                     Append(acc, item_post(item, timestamp)))
              ELSE extract_loop(Tail(items), seen \cup {timestamp}, acc)

extract_posts_from_json(items) == extract_loop(items, {}, <<>>)

----------------------------------------------------------------------------
(* Inputs *)

s_a == <<97>>
s_b == <<98>>
s_n == <<110>>
s_t == <<116>>
s_u == <<117>>
s_v == <<118>>
s_x == <<120>>
\* "Ã©", the UTF-8 bytes of U+00E9 read as Latin-1
s_mojibake == <<195, 169>>
\* U+00E9 alone: no valid UTF-8
s_latin == <<233>>
\* U+0161: outside Latin-1
s_wide == <<353>>
\* "m/p.jpg", "n/p.jpg", "m/q.jpg", "m/Sticker.png"
path_mp == <<109, 47, 112, 46, 106, 112, 103>>
path_np == <<110, 47, 112, 46, 106, 112, 103>>
path_mq == <<109, 47, 113, 46, 106, 112, 103>>
path_sticker == <<109, 47, 83, 116, 105, 99, 107, 101, 114, 46, 112, 110, 103>>

\* A dict with the given keys; Absent leaves the key out.
Absent == [absent |-> TRUE]

Field(key, value) == IF value = Absent THEN <<>> ELSE key :> value

Entry(key, value) == PyDict(Field(key, value))

Item(timestamp, entries, title, tags, attachments) ==
    PyDict(Field("timestamp", timestamp) @@ Field("data", entries)
           @@ Field("title", title) @@ Field("tags", tags)
           @@ Field("attachments", attachments))

PostData(text) == PyList(<<Entry("post", PyStr(text))>>)

Media(uri) == Entry("media", Entry("uri", PyStr(uri)))

External(key, value) == Entry("external_context", Entry(key, PyStr(value)))

Attachment(entries) == Entry("data", PyList(entries))

\* Records that differ in timestamp and text, among them ill-shaped ones.
TextItems ==
    {Item(ts, d, Absent, Absent, Absent) :
        ts \in {Absent, PyInt(1), PyInt(2)},
        d \in {Absent, None, PostData(s_a),
               PyList(<<PyDict(<<>>), Entry("post", PyStr(<<>>)),
                        Entry("post", PyStr(s_b)), PyInt(5)>>)}}
    \cup
    {Item(ts, d, Absent, Absent, Absent) :
        ts \in {None, PyStr(s_x), PyList(<<>>)},
        d \in {Absent, PostData(s_a)}}
    \cup
    {Item(PyInt(2), d, Absent, Absent, Absent) :
        d \in {PostData(s_mojibake), PostData(s_latin), PostData(s_wide),
               PyList(<<Entry("post", PyInt(5))>>)}}

AttachmentLists ==
    {PyList(<<Attachment(<<Media(path_mp)>>)>>),
     PyList(<<Attachment(<<Media(path_sticker)>>)>>),
     PyList(<<Attachment(<<Media(path_np), Media(path_sticker), Media(path_mq)>>)>>),
     PyList(<<Attachment(<<External("url", s_u)>>)>>),
     PyList(<<Attachment(<<External("url", s_u), External("name", s_n)>>)>>),
     PyList(<<Attachment(<<External("url", s_u)>>),
              Attachment(<<Media(path_mp), External("url", s_v), Media(path_mq)>>)>>),
     PyList(<<Attachment(<<External("name", s_n)>>)>>),
     PyList(<<PyDict(<<>>)>>),
     None,
     PyList(<<Attachment(<<Entry("media", PyStr(path_mp))>>)>>)}

\* Records that differ in their attachments, with and without a text.
AttachmentItems ==
    {Item(PyInt(1), d, Absent, Absent, a) :
        d \in {Absent, PostData(s_a)}, a \in AttachmentLists}

\* Records that differ in title and tags.
TitleItems ==
    {Item(PyInt(1), PostData(s_a), PyStr(s_t), PyList(<<Entry("name", PyStr(s_x))>>), Absent),
     Item(PyInt(1), Absent, PyStr(s_t), PyList(<<Entry("name", PyStr(s_x))>>),
          PyList(<<Attachment(<<External("url", s_u)>>)>>)),
     Item(PyInt(1), PostData(s_a), None, PyList(<<PyDict(<<>>)>>), Absent),
     Item(PyInt(1), PostData(s_a), PyInt(5), Absent, Absent),
     Item(PyInt(1), PostData(s_a), PyStr(s_mojibake), PyList(<<PyStr(s_x)>>), Absent)}

Items == TextItems \cup AttachmentItems \cup TitleItems

MaxRecords == 2

----------------------------------------------------------------------------
(* extract_posts_from_json applied to a list of records *)

NoResult == [exc |-> FALSE, posts |-> <<>>]

IdleLoad ==
    /\ json_files = <<>>
    /\ file_idx = 1
    /\ all_posts = <<>>
    /\ seen_timestamps = {}

IdleRender ==
    /\ posts = <<>>
    /\ extract_dir = <<>>
    /\ photos_output_dir = <<>>
    /\ html_items = <<>>
    /\ post_idx = 1
    /\ runs = 0

InitExtract ==
    /\ pc = "extract"
    /\ data \in SeqsUpTo(Items, MaxRecords)
    /\ result = NoResult
    /\ IdleLoad
    /\ IdleRender

Extract ==
    /\ pc = "extract"
    /\ result' = extract_posts_from_json(data)
    /\ pc' = IF result'.exc THEN "raised" ELSE "returned"
    /\ UNCHANGED <<data, loadVars, renderVars>>

NextExtract == Extract

SpecExtract == InitExtract /\ [][NextExtract]_vars

----------------------------------------------------------------------------
(* load_and_merge_posts *)

\* A file's content: a JSON list of records, or text json.load rejects.
Malformed == [error |-> "JSONDecodeError"]

Document(records) == [records |-> records]

IsMalformed(file) == "error" \in DOMAIN file

\* Well-shaped records with integer timestamps.
FileItems ==
    {Item(PyInt(1), PostData(s_a), Absent, Absent, Absent),
     Item(PyInt(1), PostData(s_b), Absent, Absent, Absent),
     Item(PyInt(1), Absent, PyStr(s_t), PyList(<<Entry("name", PyStr(s_x))>>),
          PyList(<<Attachment(<<External("url", s_u), Media(path_sticker)>>)>>)),
     Item(PyInt(3), Absent, Absent, Absent,
          PyList(<<Attachment(<<Media(path_mp)>>)>>)),
     Item(Absent, PostData(s_b), Absent, Absent, Absent)}

MaxFiles == 2

MaxFileRecords == 2

MaxTotalRecords == 3

\* The shape of a run's input: for every file the number of its records,
\* or NoDocument for a file that is not JSON.
NoDocument == 0 - 1

FileShapes == SeqsUpTo({NoDocument} \cup (0..MaxFileRecords), MaxFiles)

RECURSIVE ShapeTotal(_)
ShapeTotal(shape) ==
    IF shape = <<>> THEN 0
    ELSE (IF Head(shape) = NoDocument THEN 0 ELSE Head(shape))
            + ShapeTotal(Tail(shape))

\* The files of the shape, filled with the records in order.
RECURSIVE FilesOf(_, _)
FilesOf(records, shape) ==
    IF shape = <<>> THEN <<>>
    ELSE IF Head(shape) = NoDocument
    THEN <<Malformed>> \o FilesOf(records, Tail(shape))
    ELSE <<Document(SubSeq(records, 1, Head(shape)))>>
            \o FilesOf(SubSeq(records, Head(shape) + 1, Len(records)), Tail(shape))

\* Mutant of merge_posts: a Post of a later file replaces the one accepted
\* before with the same timestamp.
RECURSIVE merge_posts_last_wins(_, _, _)
merge_posts_last_wins(acc, seen, new_posts) ==
    IF new_posts = <<>> THEN [all_posts |-> acc, seen_timestamps |-> seen]
    ELSE LET post == Head(new_posts) IN
         IF post.timestamp \notin seen
         THEN merge_posts_last_wins(Append(acc, post),
                                    seen \cup {post.timestamp}, Tail(new_posts))
         ELSE merge_posts_last_wins(
                  [i \in 1..Len(acc) |->
                      IF acc[i].timestamp = post.timestamp THEN post ELSE acc[i]],
                  seen, Tail(new_posts))

\* Mutant of merge_posts: the timestamp is marked as seen before it is
\* tested, so that the Post is never appended.
RECURSIVE merge_posts_mark_first(_, _, _)
merge_posts_mark_first(acc, seen, new_posts) ==
    IF new_posts = <<>> THEN [all_posts |-> acc, seen_timestamps |-> seen]
    ELSE merge_posts_mark_first(acc, seen \cup {Head(new_posts).timestamp},
                                Tail(new_posts))

\* The loop over the posts of one file (lines 114-117).
RECURSIVE merge_posts(_, _, _)
merge_posts(acc, seen, new_posts) ==
    IF new_posts = <<>> THEN [all_posts |-> acc, seen_timestamps |-> seen]
    ELSE LET post == Head(new_posts) IN
         IF post.timestamp \notin seen
         THEN merge_posts(Append(acc, post), seen \cup {post.timestamp},
                          Tail(new_posts))
         ELSE merge_posts(acc, seen, Tail(new_posts))

\* Comparing the keys raises TypeError when a timestamp is not a number.
sort_raises(ps) ==
    Len(ps) > 1 /\ \E i \in 1..Len(ps) : ~IsInt(ps[i].timestamp)

\* The place of post p in a list sorted descending: behind every post whose
\* key is not smaller, so that the sort is stable.
insert_desc(sorted, p) ==
    LET k == Cardinality({i \in 1..Len(sorted) :
                            sorted[i].timestamp.int >= p.timestamp.int})
    IN  SubSeq(sorted, 1, k) \o <<p>> \o SubSeq(sorted, k + 1, Len(sorted))

RECURSIVE sort_from(_, _)
sort_from(sorted, rest) ==
    IF rest = <<>> THEN sorted
    ELSE sort_from(insert_desc(sorted, Head(rest)), Tail(rest))

\* Mutant of sort_by_timestamp_desc: the sort without reverse=True.
RECURSIVE sort_by_timestamp_asc(_)
sort_by_timestamp_asc(ps) ==
    IF ps = <<>> THEN <<>>
    ELSE LET sorted == sort_by_timestamp_asc(SubSeq(ps, 1, Len(ps) - 1))
             p == ps[Len(ps)]
             k == Cardinality({i \in 1..Len(sorted) :
                                 sorted[i].timestamp.int <= p.timestamp.int})
         IN  SubSeq(sorted, 1, k) \o <<p>> \o SubSeq(sorted, k + 1, Len(sorted))

\* list.sort(key=lambda p: p.timestamp, reverse=True)
sort_by_timestamp_desc(ps) == sort_from(<<>>, ps)

\* The files of a run: at most MaxFiles files of at most MaxFileRecords
\* records each, with at most MaxTotalRecords records in all.
Init ==
    /\ pc = "load"
    /\ \E records \in SeqsUpTo(FileItems, MaxTotalRecords), shape \in FileShapes :
          /\ ShapeTotal(shape) = Len(records)
          /\ json_files = FilesOf(records, shape)
    /\ file_idx = 1
    /\ all_posts = <<>>
    /\ seen_timestamps = {}
    /\ data = <<>>
    /\ result = NoResult
    /\ IdleRender

\* Mutant of ProcessFile: the JSONDecodeError is not caught and ends the run.
ProcessFile_uncaught ==
    /\ pc = "load"
    /\ file_idx <= Len(json_files)
    /\ LET file == json_files[file_idx] IN
       IF IsMalformed(file)
       THEN /\ pc' = "load_raised"
            /\ UNCHANGED <<file_idx, all_posts, seen_timestamps>>
       ELSE LET merged == merge_posts(all_posts, seen_timestamps,
                              extract_posts_from_json(file.records).posts) IN
            /\ all_posts' = merged.all_posts
            /\ seen_timestamps' = merged.seen_timestamps
            /\ file_idx' = file_idx + 1
            /\ UNCHANGED pc
    /\ UNCHANGED <<json_files, extractVars, renderVars>>

\* One iteration of the loop over json_files (lines 108-119).
ProcessFile ==
    /\ pc = "load"
    /\ file_idx <= Len(json_files)
    /\ LET file == json_files[file_idx] IN
       IF IsMalformed(file)
       THEN /\ file_idx' = file_idx + 1
            /\ UNCHANGED <<pc, all_posts, seen_timestamps>>
       ELSE LET extracted == extract_posts_from_json(file.records) IN
            IF extracted.exc
            THEN /\ pc' = "load_raised"
                 /\ UNCHANGED <<file_idx, all_posts, seen_timestamps>>
            ELSE LET merged == merge_posts(all_posts, seen_timestamps,
                                           extracted.posts) IN
                 /\ all_posts' = merged.all_posts
                 /\ seen_timestamps' = merged.seen_timestamps
                 /\ file_idx' = file_idx + 1
                 /\ UNCHANGED pc
    /\ UNCHANGED <<json_files, extractVars, renderVars>>

\* Lines 121-122.
SortAndReturn ==
    /\ pc = "load"
    /\ file_idx > Len(json_files)
    /\ IF sort_raises(all_posts)
       THEN pc' = "load_raised" /\ UNCHANGED all_posts
       ELSE pc' = "loaded" /\ all_posts' = sort_by_timestamp_desc(all_posts)
    /\ UNCHANGED <<json_files, file_idx, seen_timestamps, extractVars, renderVars>>

Next == ProcessFile \/ SortAndReturn

Spec == Init /\ [][Next]_vars

----------------------------------------------------------------------------
(* generate_html *)

\* html.escape(s) with quote=True
EscapeChar(c) ==
    CASE c = 38 -> <<38, 97, 109, 112, 59>>
      [] c = 60 -> <<38, 108, 116, 59>>
      [] c = 62 -> <<38, 103, 116, 59>>
      [] c = 34 -> <<38, 113, 117, 111, 116, 59>>
      [] c = 39 -> <<38, 35, 120, 50, 55, 59>>
      [] OTHER -> <<c>>

html_escape(s) == Flatten([i \in 1..Len(s) |-> EscapeChar(s[i])])

\* sep.join(strs)
RECURSIVE Join(_, _)
Join(sep, strs) ==
    IF strs = <<>> THEN <<>>
    ELSE IF Len(strs) = 1 THEN strs[1].str
    ELSE strs[1].str \o sep \o Join(sep, Tail(strs))

\* "extracted_data", "photos/", ", "
extract_dir_name == <<101, 120, 116, 114, 97, 99, 116, 101, 100, 95, 100, 97, 116, 97>>
photos_prefix == <<112, 104, 111, 116, 111, 115, 47>>
comma_space == <<44, 32>>

\* An entry of extract_dir is a file with a content or a directory.
Directory == "directory"

\* Mutant of copy_photo: src.exists() is not tested, and copying a missing
\* file raises FileNotFoundError.
copy_photo_unchecked(src_dir, out_dir, photo_path) ==
    LET name == PathName(extract_dir_name \o <<47>> \o photo_path) IN
    IF name \notin DOMAIN out_dir
    THEN IF photo_path \notin DOMAIN src_dir \/ src_dir[photo_path] = Directory
         THEN [exc |-> TRUE, dir |-> out_dir, path |-> <<>>]
         ELSE [exc |-> FALSE,
               dir |-> out_dir @@ (name :> src_dir[photo_path]),
               path |-> photos_prefix \o name]
    ELSE [exc |-> FALSE, dir |-> out_dir, path |-> photos_prefix \o name]

\* Mutant of copy_photo: dest.exists() is not tested, and the copy replaces
\* the file that is there.
copy_photo_overwrite(src_dir, out_dir, photo_path) ==
    IF photo_path \in DOMAIN src_dir
    THEN LET name == PathName(extract_dir_name \o <<47>> \o photo_path) IN
         IF src_dir[photo_path] = Directory
         THEN [exc |-> TRUE, dir |-> out_dir, path |-> <<>>]
         ELSE [exc |-> FALSE,
               dir |-> (name :> src_dir[photo_path]) @@ out_dir,
               path |-> photos_prefix \o name]
    ELSE [exc |-> FALSE, dir |-> out_dir, path |-> <<>>]

\* copy_photo(photo_path) with the photos directory out_dir:
\* [exc |-> shutil.copy2 raised, dir |-> the photos directory afterwards,
\*  path |-> the returned string].  src is extract_dir / photo_path; copying
\* a directory raises IsADirectoryError before anything is written.
copy_photo(src_dir, out_dir, photo_path) ==
    IF photo_path \in DOMAIN src_dir
    THEN LET name == PathName(extract_dir_name \o <<47>> \o photo_path) IN
         IF name \notin DOMAIN out_dir
         THEN IF src_dir[photo_path] = Directory
              THEN [exc |-> TRUE, dir |-> out_dir, path |-> <<>>]
              ELSE [exc |-> FALSE,
                    dir |-> out_dir @@ (name :> src_dir[photo_path]),
                    path |-> photos_prefix \o name]
         ELSE [exc |-> FALSE, dir |-> out_dir, path |-> photos_prefix \o name]
    ELSE [exc |-> FALSE, dir |-> out_dir, path |-> <<>>]

EmptyHtml == [empty |-> TRUE]

Img(copied_path) == [class |-> "post-photo", src |-> html_escape(copied_path)]

\* The loop over post.photo_paths (lines 165-168) from the path at the head
\* of paths on: [exc, dir, photo_copies].
RECURSIVE copy_photos(_, _, _, _)
copy_photos(src_dir, out_dir, paths, photo_copies) ==
    IF paths = <<>>
    THEN [exc |-> FALSE, dir |-> out_dir, photo_copies |-> photo_copies]
    ELSE LET copied == copy_photo(src_dir, out_dir, Head(paths)) IN
         IF copied.exc
         THEN [exc |-> TRUE, dir |-> copied.dir, photo_copies |-> photo_copies]
         ELSE copy_photos(src_dir, copied.dir, Tail(paths),
                          IF copied.path # <<>>
                          THEN Append(photo_copies, Img(copied.path))
                          ELSE photo_copies)

\* The item appended to html_items for a post (lines 162-195).
html_item(post, photo_copies) ==
    [date_html |-> IF Truthy(post.date_string)
                   THEN [class |-> "date", text |-> html_escape(post.date_string.str)]
                   ELSE EmptyHtml,
     title_html |-> IF Truthy(post.title)
                    THEN [class |-> "title", text |-> html_escape(post.title.str)]
                    ELSE EmptyHtml,
     text_html |-> IF Truthy(post.post_text)
                   THEN [class |-> "post-text", text |-> html_escape(post.post_text.str)]
                   ELSE EmptyHtml,
     photo_html |-> IF photo_copies # <<>>
                    THEN [class |-> "photos", imgs |-> photo_copies]
                    ELSE EmptyHtml,
     tags_html |-> IF post.tags # <<>>
                   THEN [class |-> "tags",
                         text |-> html_escape(Join(comma_space, post.tags))]
                   ELSE EmptyHtml,
     external_html |-> IF Truthy(post.external_url)
                       THEN [class |-> "external-link",
                             href |-> html_escape(post.external_url.str)]
                       ELSE EmptyHtml]

\* Posts as load_and_merge_posts returns them: strings in every text field,
\* distinct timestamps.
s_markup == <<60, 97, 62, 38>>

RenderPosts ==
    {FacebookPost(PyInt(5), PyStr(s_markup), PyStr(s_t), <<path_mp>>, <<PathName(path_mp)>>,
                  <<PyStr(s_x), PyStr(s_t)>>, PyStr(s_u)),
     FacebookPost(PyInt(4), PyStr(<<>>), PyStr(<<>>), <<path_np, path_mp>>,
                  <<PathName(path_np), PathName(path_mp)>>, <<>>, PyStr(<<>>)),
     FacebookPost(PyInt(3), PyStr(s_a), PyStr(<<>>), <<>>, <<>>, <<>>, PyStr(s_v)),
     FacebookPost(PyInt(2), PyStr(s_b), PyStr(<<>>), <<path_mq, path_np>>,
                  <<PathName(path_mq), PathName(path_np)>>, <<PyStr(s_x)>>, PyStr(<<>>)),
     FacebookPost(PyInt(0), PyStr(s_a), PyStr(s_t), <<path_mp>>, <<PathName(path_mp)>>,
                  <<>>, PyStr(<<>>))}

MaxPosts == 2

MaxRuns == 2

PhotoPaths == {path_mp, path_np, path_mq}

\* The media source root: some of the paths exist, as files or directories.
SourceDirs ==
    UNION {[S -> {"c1", "c2", Directory}] : S \in SUBSET PhotoPaths}

\* The photos directory before the first run: empty, or with files left by
\* an earlier export.
OutputDirs ==
    UNION {[S -> {"old"}] : S \in SUBSET {PathName(p) : p \in PhotoPaths}}

\* Lists sorted as load_and_merge_posts sorts them.
SortedPostLists ==
    {ps \in SeqsUpTo(RenderPosts, MaxPosts) :
        \A i, j \in 1..Len(ps) :
            i < j => ps[i].timestamp.int > ps[j].timestamp.int}

InitRender ==
    /\ pc = "render"
    /\ posts \in SortedPostLists
    /\ extract_dir \in SourceDirs
    /\ photos_output_dir \in OutputDirs
    /\ html_items = <<>>
    /\ post_idx = 1
    /\ runs = 0
    /\ data = <<>>
    /\ result = NoResult
    /\ IdleLoad

\* One iteration of the loop over posts (lines 161-195).
RenderPost ==
    /\ pc = "render"
    /\ post_idx <= Len(posts)
    /\ LET post == posts[post_idx]
           copied == copy_photos(extract_dir, photos_output_dir,
                                 post.photo_paths, <<>>)
       IN  /\ photos_output_dir' = copied.dir
           /\ IF copied.exc
              THEN /\ pc' = "render_raised"
                   /\ UNCHANGED <<html_items, post_idx>>
              ELSE /\ html_items' = Append(html_items,
                                           html_item(post, copied.photo_copies))
                   /\ post_idx' = post_idx + 1
                   /\ UNCHANGED pc
    /\ UNCHANGED <<posts, extract_dir, runs, extractVars, loadVars>>

\* index.html is written (lines 197-299).
WriteHtml ==
    /\ pc = "render"
    /\ post_idx > Len(posts)
    /\ pc' = "rendered"
    /\ runs' = runs + 1
    /\ UNCHANGED <<posts, extract_dir, photos_output_dir, html_items, post_idx,
                   extractVars, loadVars>>

\* The tool is run once more on the same archive and output directory.
RunAgain ==
    /\ pc = "rendered"
    /\ runs < MaxRuns
    /\ pc' = "render"
    /\ html_items' = <<>>
    /\ post_idx' = 1
    /\ UNCHANGED <<posts, extract_dir, photos_output_dir, runs,
                   extractVars, loadVars>>

NextRender == RenderPost \/ WriteHtml \/ RunAgain

SpecRender == InitRender /\ [][NextRender]_vars

----------------------------------------------------------------------------
(* Properties of extract_posts_from_json, checked under SpecExtract *)

RecordTimestamp(item) == Get(item, "timestamp", PyInt(0))

\* The record has a non-empty text or a photo path that is accepted.
RecordValid(item) ==
    /\ ~item_raises(item)
    /\ \/ Truthy(item_post_text(item).post_text)
       \/ Len(scan_photo_paths(att_data_entries(item))) >= 1

\* The first record of items with the timestamp of post p: the record the
\* post was built from.
SourceRecord(items, p) ==
    items[SetMin({i \in 1..Len(items) : RecordTimestamp(items[i]) = p.timestamp})]

\* C4: every Post extract_posts_from_json returns has a non-empty text or at
\* least one photo path, and the records with an empty text and no accepted
\* photo path produce no Post, whatever their title, tags or external URL:
\* there are at most as many Posts as valid records, and each Post comes
\* from a valid record.
C4_OnlyValidRecordsYieldPosts ==
    pc = "returned" =>
        /\ \A i \in 1..Len(result.posts) :
              /\ \/ result.posts[i].post_text.str # <<>>
                 \/ Len(result.posts[i].photo_paths) >= 1
              /\ RecordValid(SourceRecord(data, result.posts[i]))
        /\ Len(result.posts)
              <= Cardinality({i \in 1..Len(data) : RecordValid(data[i])})

\* C4 witness: a call returned a Post although an invalid record with a
\* title, tags and an external URL was among the records.
C4_Witness ==
    /\ pc = "returned"
    /\ Len(result.posts) >= 1
    /\ \E i \in 1..Len(data) :
          /\ ~RecordValid(data[i])
          /\ {"title", "tags", "attachments"} \subseteq DOMAIN data[i].dict
          /\ Truthy(scan_external_url(att_data_entries(data[i]), PyStr(<<>>)))

\* C6 (as claimed): extract_posts_from_json never raises on records with
\* missing or unexpectedly shaped fields; an absent timestamp counts as 0 and
\* absent title, text and tags as empty.
C6_NeverRaises ==
    /\ pc # "raised"
    /\ pc = "returned" =>
          \A i \in 1..Len(result.posts) :
             LET p == result.posts[i]
                 src == SourceRecord(data, p).dict
             IN  /\ "timestamp" \notin DOMAIN src => p.timestamp = PyInt(0)
                 /\ "title" \notin DOMAIN src => p.title = PyStr(<<>>)
                 /\ "data" \notin DOMAIN src => p.post_text = PyStr(<<>>)
                 /\ "tags" \notin DOMAIN src => p.tags = <<>>
                 /\ "attachments" \notin DOMAIN src => p.photo_paths = <<>>

\* The attachment data entries of the record whose external_context has a url.
EntriesWithUrl(entries) ==
    {k \in 1..Len(entries) :
        LET external_context == Get(entries[k], "external_context", None) IN
        IsDict(external_context) /\ "url" \in DOMAIN external_context.dict}

\* C9 (as claimed): the external_url of a Post is the url of the last
\* attachment data entry, in scan order, whose external_context has a url;
\* it is empty only when no entry has one.
C9_LastUrlWins ==
    pc = "returned" =>
        \A i \in 1..Len(result.posts) :
           LET p == result.posts[i]
               entries == att_data_entries(SourceRecord(data, p))
               withUrl == EntriesWithUrl(entries)
           IN  p.external_url =
                  IF withUrl = {} THEN PyStr(<<>>)
                  ELSE entries[SetMax(withUrl)].dict.external_context.dict.url

----------------------------------------------------------------------------
(* Properties of load_and_merge_posts, checked under Spec *)

\* The files read so far that were parsed.
ParsedFiles == {f \in 1..(file_idx - 1) : ~IsMalformed(json_files[f])}

FilePosts(f) == extract_posts_from_json(json_files[f].records).posts

TimestampsOf(ps) == {ps[i].timestamp : i \in 1..Len(ps)}

PostsWith(ps, T) == SelectSeq(ps, LAMBDA p : p.timestamp = T)

\* The records of the parsed files in the order they are encountered.
AllRecords ==
    Flatten([f \in 1..Len(json_files) |->
                IF IsMalformed(json_files[f]) THEN <<>>
                ELSE json_files[f].records])

\* C1 (as claimed): when exactly two records have a timestamp T, one valid
\* and one with empty text and no photos, in either order and in one file
\* or two, the final collection has exactly one Post with T, the one built
\* from the valid record.
C1_SkippedRecordNotDeduplicated ==
    pc = "loaded" =>
        \A i, j \in 1..Len(AllRecords) :
            (/\ i # j
             /\ RecordTimestamp(AllRecords[i]) = RecordTimestamp(AllRecords[j])
             /\ RecordValid(AllRecords[i])
             /\ ~RecordValid(AllRecords[j])
             /\ \A k \in 1..Len(AllRecords) :
                   RecordTimestamp(AllRecords[k]) = RecordTimestamp(AllRecords[i])
                      => k \in {i, j})
            => PostsWith(all_posts, RecordTimestamp(AllRecords[i]))
                  = <<item_post(AllRecords[i], RecordTimestamp(AllRecords[i]))>>

\* C2: when several files yield a Post with timestamp T, the collection
\* holds exactly one Post with T, the one of the earliest such file; this
\* holds after every file and in the returned collection.
C2_FirstSeenFileWins ==
    pc \in {"load", "loaded"} =>
        \A f \in ParsedFiles :
            \A T \in TimestampsOf(FilePosts(f)) :
                LET first == SetMin({g \in ParsedFiles : T \in TimestampsOf(FilePosts(g))})
                IN  PostsWith(all_posts, T) = PostsWith(FilePosts(first), T)

\* C2 witness: two files yielded different Posts with one timestamp and the
\* collection was returned.
C2_Witness ==
    /\ pc = "loaded"
    /\ \E f, g \in ParsedFiles :
          /\ f < g
          /\ \E T \in TimestampsOf(FilePosts(f)) \cap TimestampsOf(FilePosts(g)) :
                PostsWith(FilePosts(f), T) # PostsWith(FilePosts(g), T)

\* C3: the returned collection is strictly descending by timestamp.
C3_StrictlyDescending ==
    pc = "loaded" =>
        \A i, j \in 1..Len(all_posts) :
            i < j => all_posts[i].timestamp.int > all_posts[j].timestamp.int

\* C3 witness: three or more Posts were returned and the first one accepted
\* did not have the greatest timestamp.
C3_Witness ==
    /\ pc = "loaded"
    /\ Len(all_posts) >= 3
    /\ ~IsMalformed(json_files[1])
    /\ Len(json_files[1].records) >= 1
    /\ RecordTimestamp(json_files[1].records[1]) = PyInt(1)
    /\ all_posts[Len(all_posts)].timestamp = PyInt(0)

\* C5: reading a file that is not JSON leaves the Posts and the seen
\* timestamps as they were and moves on to the next file without aborting,
\* and the collection is returned only when every file has been read.
C5_Step ==
    /\ (pc = "load" /\ file_idx <= Len(json_files)
            /\ IsMalformed(json_files[file_idx]))
         => /\ pc' = "load"
            /\ file_idx' = file_idx + 1
            /\ all_posts' = all_posts
            /\ seen_timestamps' = seen_timestamps
    /\ pc' = "loaded" => file_idx' = Len(json_files') + 1

C10_NoTimestampLost ==
    pc \in {"load", "loaded"} =>
        /\ seen_timestamps = TimestampsOf(all_posts)
        /\ TimestampsOf(all_posts)
              = UNION {TimestampsOf(FilePosts(f)) : f \in ParsedFiles}

\* C10 witness: two parsed files were merged, the later one with a
\* timestamp the earlier one has and a timestamp of its own.
C10_Witness ==
    /\ pc = "loaded"
    /\ \E f, g \in ParsedFiles :
          /\ f < g
          /\ TimestampsOf(FilePosts(f)) \cap TimestampsOf(FilePosts(g)) # {}
          /\ TimestampsOf(FilePosts(g)) \ TimestampsOf(FilePosts(f)) # {}

----------------------------------------------------------------------------
(* Properties of generate_html, checked under SpecRender *)

\* The photo paths of a post that exist under the media source root.
ExistingPaths(post) ==
    SelectSeq(post.photo_paths, LAMBDA p : p \in DOMAIN extract_dir)

Fragment(class, value) ==
    IF value = <<>> THEN EmptyHtml ELSE [class |-> class, text |-> html_escape(value)]

\* C7: a photo path that does not exist under the media source root raises
\* no error, gives no image element and no copy: rendering a post raises
\* only for a path that exists, every file added to the photos directory
\* has the name of an existing path, the image elements are those of the
\* existing paths, and date, title, text, tags and external link are
\* rendered from the post alone.
C7_Step ==
    (pc = "render" /\ post_idx <= Len(posts)) =>
        LET post == posts[post_idx]
            existing == ExistingPaths(post)
        IN  /\ existing = <<>> => pc' = "render"
            /\ pc' = "render_raised" =>
                  \E k \in 1..Len(existing) : extract_dir[existing[k]] = Directory
            /\ \A n \in (DOMAIN photos_output_dir') \ (DOMAIN photos_output_dir) :
                  \E k \in 1..Len(existing) : PathName(existing[k]) = n
            /\ (pc' = "render" /\ post_idx' = post_idx + 1) =>
                  LET item == html_items'[post_idx] IN
                  /\ item.photo_html =
                        IF existing = <<>> THEN EmptyHtml
                        ELSE [class |-> "photos",
                              imgs |-> [k \in 1..Len(existing) |->
                                  [class |-> "post-photo",
                                   src |-> html_escape(photos_prefix
                                              \o PathName(existing[k]))]]]
                  /\ item.date_html =
                        IF post.timestamp = PyInt(0) THEN EmptyHtml
                        ELSE [class |-> "date", text |-> post.date_string.str]
                  /\ item.title_html = Fragment("title", post.title.str)
                  /\ item.text_html = Fragment("post-text", post.post_text.str)
                  /\ item.tags_html =
                        Fragment("tags", Join(comma_space, post.tags))
                  /\ item.external_html =
                        IF post.external_url.str = <<>> THEN EmptyHtml
                        ELSE [class |-> "external-link",
                              href |-> html_escape(post.external_url.str)]

\* C7: every step of generate_html satisfies C7_Step.
C7_MissingMediaTolerated == [][C7_Step]_vars

\* C7 witness: a post with a title, a text, tags and an external link was
\* rendered although none of its photo paths exists.
C7_Witness ==
    /\ pc \in {"render", "rendered"}
    /\ \E i \in 1..Len(html_items) :
          /\ posts[i].photo_paths # <<>>
          /\ ExistingPaths(posts[i]) = <<>>
          /\ html_items[i].photo_html = EmptyHtml
          /\ html_items[i].title_html # EmptyHtml
          /\ html_items[i].text_html # EmptyHtml
          /\ html_items[i].tags_html # EmptyHtml
          /\ html_items[i].external_html # EmptyHtml

\* C8: no step of generate_html removes or changes a file of the photos
\* directory, and once a run has completed a further run leaves the
\* directory as it is.
C8_Step ==
    /\ \A n \in DOMAIN photos_output_dir :
          /\ n \in DOMAIN photos_output_dir'
          /\ photos_output_dir'[n] = photos_output_dir[n]
    /\ runs >= 1 => photos_output_dir' = photos_output_dir

\* C8: every step of generate_html, in every run, satisfies C8_Step.
C8_NeverOverwrites == [][C8_Step]_vars

\* C8 witness: in a second run a post was rendered whose photo exists in the
\* source with a content other than that of the file of its name in the
\* photos directory.
C8_Witness ==
    /\ pc = "render"
    /\ runs >= 1
    /\ post_idx > 1
    /\ \E k \in 1..Len(posts[1].photo_paths) :
          LET p == posts[1].photo_paths[k] IN
          /\ p \in DOMAIN extract_dir
          /\ extract_dir[p] # Directory
          /\ PathName(p) \in DOMAIN photos_output_dir
          /\ photos_output_dir[PathName(p)] # extract_dir[p]

====
